---- MODULE Spec2Model ----
(***************************************************************************)
(* codeownerreport: main() of src/main.go as a state machine.               *)
(*                                                                         *)
(* The environment (the CODEOWNERS file on disk and the git repository in  *)
(* the working directory) is fixed by Init and never changes.  The program *)
(* walks through main() one library call or one loop iteration at a time.  *)
(* Go map iteration (range over fileOwners / ownerFiles) has no defined    *)
(* order: every loop iteration picks any key not yet visited.              *)
(*                                                                         *)
(* go-git, hmarr/codeowners and samber/lo are modelled by what main() can  *)
(* observe of them: Ruleset.Match returns the last rule that matches, an   *)
(* error when a rule's match fails, and (nil, nil) when no rule matches.   *)
(*                                                                         *)
(* Three specifications share the program and differ in the environments   *)
(* they start from: Spec (every ruleset), SpecExtract (every list of file  *)
(* patches) and SpecResolve (every repository).                            *)
(***************************************************************************)
EXTENDS Integers, Sequences, FiniteSets

VARIABLES
    codeowners,     \* environment: .github/CODEOWNERS, readable or not, and its rules
    gitRepo,        \* environment: the repository in "."
    pc,             \* position in main()
    ruleset,        \* main.go:15
    currentBranch,  \* main.go:27
    mainBranch,     \* main.go:38
    mainRef,        \* main.go:47
    mainCommit,     \* main.go:52
    currentCommit,  \* main.go:60
    baseCommits,    \* main.go:66
    baseCommit,     \* main.go:77
    baseTree,       \* main.go:81
    currentTree,    \* main.go:87
    diff,           \* main.go:93
    patch,          \* main.go:99
    fileOwners,     \* main.go:105
    ownerFiles,     \* main.go:128
    iter,           \* keys the running range loop has not visited yet
    stdout,         \* lines printed by fmt.Println / fmt.Printf
    slog,           \* records written by slog.Info / slog.Error
    exitCode        \* process exit status, -1 while the process runs

vars == <<codeowners, gitRepo, pc, ruleset, currentBranch, mainBranch, mainRef,
          mainCommit, currentCommit, baseCommits, baseCommit, baseTree,
          currentTree, diff, patch, fileOwners, ownerFiles, iter, stdout,
          slog, exitCode>>

progVars == <<ruleset, currentBranch, mainBranch, mainRef, mainCommit,
              currentCommit, baseCommits, baseCommit, baseTree, currentTree,
              diff, patch, fileOwners, ownerFiles, iter, stdout>>

Nil == "nil"

(***************************************************************************)
(* Bounds and input universes                                              *)
(***************************************************************************)
MaxRules == 2
MaxPatches == 2

\* Changed-file paths, listed in ascending byte order.
Paths == <<"README.md", "main.go">>
PathSet == {Paths[i] : i \in 1..Len(Paths)}
PathRank(p) == CHOOSE i \in 1..Len(Paths) : Paths[i] = p

\* codeowners.Owner values: {Value, Type}.
Owners == {[Type |-> "username", Value |-> "a"],
           [Type |-> "email", Value |-> "b@x.io"]}

\* A pattern on which Rule.Match reports an error.
ErrPattern == "["
Patterns == {"*", "*.go", "*.md", ErrPattern}

OwnerLists == {<<o>> : o \in Owners} \cup
              {<<[Type |-> "username", Value |-> "a"],
                 [Type |-> "email", Value |-> "b@x.io"]>>,
               <<[Type |-> "username", Value |-> "a"],
                 [Type |-> "username", Value |-> "a"]>>}

Rules == [pattern : Patterns, Owners : OwnerLists]

SeqsUpTo(S, n) == UNION {[1..k -> S] : k \in 0..n}

Rulesets == SeqsUpTo(Rules, MaxRules)

\* .github/CODEOWNERS: a file that parses to a ruleset, or none that does.
CodeownersFiles(rulesets) ==
    {[readable |-> TRUE, rules |-> rs] : rs \in rulesets}
    \cup {[readable |-> FALSE, rules |-> << >>]}

\* diff.FilePatch.Files(): (from, to); from is nil for an added file, to is
\* nil for a deleted one, both are set for a modification (same path) or a
\* rename (different paths).
FilePatches == {fp \in [from : PathSet \cup {Nil}, to : PathSet \cup {Nil}] :
                   fp.from # Nil \/ fp.to # Nil}

PatchLists == SeqsUpTo(FilePatches, MaxPatches)

Commits == {"c_head", "c_main", "c_anc1", "c_anc2"}

\* What Commit.MergeBase can answer for HEAD's commit and the mainline tip.
MergeBaseAnswers(tip) ==
    IF tip = "c_head" THEN {<<"c_head">>}
    ELSE {<< >>, <<"c_main">>, <<"c_head">>, <<"c_anc1">>,
          <<"c_anc1", "c_anc2">>, <<"c_anc2", "c_anc1">>}

\* What Repository.Branch(name) answers: the branch's configuration, the error
\* git.ErrBranchNotFound, or another error.
BranchAnswers == {"found", "notfound", "error"}

\* A repository: whether HEAD names a branch, what Branch("main") and
\* Branch("master") answer, the mainline tip, the merge bases of HEAD's commit
\* and that tip, and the file patches between the first merge base's tree and
\* HEAD's tree.
ReposOver(tips, patchLists) ==
    {r \in [head : {"branch", "detached"},
            branches : [{"main", "master"} -> BranchAnswers],
            mainTip : tips,
            mergeBases : UNION {MergeBaseAnswers(t) : t \in tips},
            changes : patchLists] :
        r.mergeBases \in MergeBaseAnswers(r.mainTip)}

Repos(patchLists) == ReposOver({"c_head", "c_main"}, patchLists)

\* Repositories whose history is a plain fork: main is configured or no
\* mainline is, and HEAD and the mainline tip share one merge base or none.
PlainRepos(patchLists) ==
    {r \in ReposOver({"c_main"}, patchLists) :
        /\ r.mergeBases \in {<< >>, <<"c_anc1">>}
        /\ r.branches \in {[b \in {"main", "master"} |-> IF b = f THEN "found" ELSE "notfound"] :
                              f \in {"main", Nil}}}

\* Rules whose pattern names a file suffix.
SuffixRules == {r \in Rules : r.pattern \in {"*.go", "*.md"}}

(***************************************************************************)
(* Library functions, as main() uses them                                  *)
(***************************************************************************)

\* gitignore-style pattern matching on the paths of Paths: "*" matches every
\* path, "*.go" and "*.md" match a file of that suffix at any depth.
PatternMatch(pattern, path) ==
    CASE pattern = "*" -> TRUE
      [] pattern = "*.go" -> path \in {"main.go"}
      [] pattern = "*.md" -> path \in {"README.md"}
      [] OTHER -> FALSE

\* codeowners.Rule.Match(path): (bool, error)
RuleMatch(rule, path) ==
    IF rule.pattern = ErrPattern
    THEN [match |-> FALSE, err |-> TRUE]
    ELSE [match |-> PatternMatch(rule.pattern, path), err |-> FALSE]

\* The rule a nil *Rule stands for: reading its fields panics.
NoRule == [pattern |-> Nil, Owners |-> << >>]

\* codeowners.Ruleset.Match(path): scans from the last rule to the first and
\* returns the first rule that matches or fails; (nil, nil) when none does.
RECURSIVE MatchFrom(_, _, _)
MatchFrom(rs, i, path) ==
    IF i < 1 THEN [isNil |-> TRUE, rule |-> NoRule, err |-> FALSE]
    ELSE LET m == RuleMatch(rs[i], path)
         IN IF m.match \/ m.err
            THEN [isNil |-> FALSE, rule |-> rs[i], err |-> m.err]
            ELSE MatchFrom(rs, i - 1, path)

\* Mutant: the scan runs from the first rule to the last (first match wins).
RECURSIVE MatchFirstFrom(_, _, _)
MatchFirstFrom(rs, i, path) ==
    IF i > Len(rs) THEN [isNil |-> TRUE, rule |-> NoRule, err |-> FALSE]
    ELSE LET m == RuleMatch(rs[i], path)
         IN IF m.match \/ m.err
            THEN [isNil |-> FALSE, rule |-> rs[i], err |-> m.err]
            ELSE MatchFirstFrom(rs, i + 1, path)

RulesetMatchFirst(rs, path) == MatchFirstFrom(rs, 1, path)

RulesetMatch(rs, path) == MatchFrom(rs, Len(rs), path)

\* codeowners.Owner.String(): the value for an e-mail owner, "@" + value for a
\* user or a team.
OwnerString(o) ==
    CASE o.Type = "email" -> o.Value
      [] o.Value = "a" -> "@a"
      [] OTHER -> "@?"

\* lo.Map(rule.Owners, owner.String)
OwnerStrings(owners) == [i \in 1..Len(owners) |-> OwnerString(owners[i])]

\* Mutant: no deduplication.
UniqNone(s) == s

\* lo.Uniq: the first occurrence of every element, in order.
RECURSIVE Uniq(_)
Uniq(s) ==
    IF s = << >> THEN << >>
    ELSE LET front == Uniq(SubSeq(s, 1, Len(s) - 1))
             last == s[Len(s)]
         IN IF \E i \in 1..Len(front) : front[i] = last
            THEN front
            ELSE Append(front, last)

\* Commit.Tree(): the tree snapshot of a commit.
Tree(commit) == [of |-> commit]

\* Tree.Diff followed by Changes.Patch: no file patch between a tree and
\* itself, the repository's changes otherwise.
FilePatchesOf(d) == IF d.from = d.to THEN << >> ELSE gitRepo.changes

\* Mutant: a file patch with a new path contributes only the new path.
RECURSIVE CollectNewPaths(_)
CollectNewPaths(fps) ==
    IF fps = << >> THEN {}
    ELSE LET fp == Head(fps)
         IN (IF fp.to # Nil THEN {fp.to} ELSE {fp.from})
            \cup CollectNewPaths(Tail(fps))

\* The keys the loop of main.go:107-115 leaves in fileOwners.
RECURSIVE CollectPaths(_)
CollectPaths(fps) ==
    IF fps = << >> THEN {}
    ELSE LET fp == Head(fps)
         IN (IF fp.from # Nil THEN {fp.from} ELSE {})
            \cup (IF fp.to # Nil THEN {fp.to} ELSE {})
            \cup CollectPaths(Tail(fps))

\* Mutant: ownerFiles[owner] = []string{file}, the earlier files are lost.
AddFileOverwrite(of, owner, file) ==
    [o \in DOMAIN of \cup {owner} |-> IF o = owner THEN <<file>> ELSE of[o]]

\* ownerFiles[owner] = append(ownerFiles[owner], file)
AddFile(of, owner, file) ==
    [o \in DOMAIN of \cup {owner} |->
        IF o = owner
        THEN (IF owner \in DOMAIN of THEN Append(of[owner], file) ELSE <<file>>)
        ELSE of[o]]

\* The inner loop of main.go:130-132.
RECURSIVE AddOwners(_, _, _)
AddOwners(of, owners, file) ==
    IF owners = << >> THEN of
    ELSE AddOwners(AddFile(of, Head(owners), file), Tail(owners), file)

\* What main.go:136-140 prints for one owner.
Line(kind, text) == [kind |-> kind, text |-> text]
OwnerBlock(owner, files) ==
    <<Line("blank", ""), Line("owner", owner)>>
    \o [i \in 1..Len(files) |-> Line("file", files[i])]

\* Mutant: master is tried first, main when master is not found.
SelectMasterFirst ==
    IF gitRepo.branches["master"] = "notfound"
    THEN [name |-> "main", answer |-> gitRepo.branches["main"]]
    ELSE [name |-> "master", answer |-> gitRepo.branches["master"]]

\* Repository.Branch("main"), then Branch("master") when main is not found.
SelectMainBranch ==
    IF gitRepo.branches["main"] = "notfound"
    THEN [name |-> "master", answer |-> gitRepo.branches["master"]]
    ELSE [name |-> "main", answer |-> gitRepo.branches["main"]]

\* config.Branch.Merge of a branch that tracks itself.
MergeRef(name) == IF name = "main" THEN "refs/heads/main" ELSE "refs/heads/master"

LogRecord(level, msg, arg) == [level |-> level, msg |-> msg, arg |-> arg]

(***************************************************************************)
(* main()                                                                  *)
(***************************************************************************)
envVars == <<codeowners, gitRepo>>

\* Mutant: the process exits with status 0.
FatalExitZero(msg) ==
    /\ pc' = "exit"
    /\ exitCode' = 0
    /\ slog' = slog \cup {LogRecord("ERROR", msg, Nil)}
    /\ UNCHANGED <<envVars, progVars>>

\* slog.Error(msg) followed by os.Exit(1)
Fatal(msg) ==
    /\ pc' = "exit"
    /\ exitCode' = 1
    /\ slog' = slog \cup {LogRecord("ERROR", msg, Nil)}
    /\ UNCHANGED <<envVars, progVars>>

\* The values of main's variables before their assignment.
NoReference == [name |-> Nil, hash |-> Nil]
NoBranch == [Name |-> Nil, Merge |-> Nil]
NoTree == [of |-> Nil]
NoDiff == [from |-> NoTree, to |-> NoTree]
NoMap == [k \in {} |-> << >>]

InitLocals ==
    /\ pc = "loadRuleset"
    /\ ruleset = << >>
    /\ currentBranch = NoReference
    /\ mainBranch = NoBranch
    /\ mainRef = NoReference
    /\ mainCommit = Nil
    /\ currentCommit = Nil
    /\ baseCommits = << >>
    /\ baseCommit = Nil
    /\ baseTree = NoTree
    /\ currentTree = NoTree
    /\ diff = NoDiff
    /\ patch = << >>
    /\ fileOwners = NoMap
    /\ ownerFiles = NoMap
    /\ iter = {}
    /\ stdout = << >>
    /\ slog = {}
    /\ exitCode = -1

\* Every ruleset of up to MaxRules rules, on a plain repository with at most
\* one file patch.
Init ==
    /\ codeowners \in CodeownersFiles(Rulesets)
    /\ gitRepo \in PlainRepos(SeqsUpTo(FilePatches, 1))
    /\ InitLocals

\* Every list of up to MaxPatches file patches, under a ruleset of at most two
\* suffix rules.
InitExtract ==
    /\ codeowners \in CodeownersFiles(SeqsUpTo(SuffixRules, 2))
    /\ gitRepo \in PlainRepos(PatchLists)
    /\ InitLocals

\* Every repository, under a ruleset of at most one rule and with at most one
\* file patch.
InitResolve ==
    /\ codeowners \in CodeownersFiles(SeqsUpTo(Rules, 1))
    /\ gitRepo \in Repos(SeqsUpTo(FilePatches, 1))
    /\ InitLocals

LoadRuleset ==
    /\ pc = "loadRuleset"
    /\ \/ /\ ~codeowners.readable
          /\ Fatal("Error loading ruleset.")
       \/ /\ codeowners.readable
          /\ ruleset' = codeowners.rules
          /\ pc' = "PlainOpen"
          /\ UNCHANGED <<envVars, currentBranch, mainBranch, mainRef, mainCommit,
                         currentCommit, baseCommits, baseCommit, baseTree,
                         currentTree, diff, patch, fileOwners, ownerFiles, iter,
                         stdout, slog, exitCode>>

PlainOpen ==
    /\ pc = "PlainOpen"
    /\ \/ Fatal("Error opening repository.")
       \/ /\ pc' = "Head"
          /\ UNCHANGED <<envVars, progVars, slog, exitCode>>

RepoHead ==
    /\ pc = "Head"
    /\ \/ Fatal("Error getting current branch.")
       \/ /\ gitRepo.head # "branch"
          /\ Fatal("Not on a branch.")
       \/ /\ gitRepo.head = "branch"
          /\ currentBranch' = [name |-> "refs/heads/topic", hash |-> "c_head"]
          /\ slog' = slog \cup {LogRecord("INFO", "Selected current branch.", "topic")}
          /\ pc' = "Branch"
          /\ UNCHANGED <<envVars, ruleset, mainBranch, mainRef, mainCommit,
                         currentCommit, baseCommits, baseCommit, baseTree,
                         currentTree, diff, patch, fileOwners, ownerFiles, iter,
                         stdout, exitCode>>

RepoBranch ==
    /\ pc = "Branch"
    /\ \/ /\ SelectMainBranch.answer # "found"
          /\ Fatal("Error finding main branch.")
       \/ /\ SelectMainBranch.answer = "found"
          /\ mainBranch' = [Name |-> SelectMainBranch.name,
                            Merge |-> MergeRef(SelectMainBranch.name)]
          /\ pc' = "Reference"
          /\ UNCHANGED <<envVars, ruleset, currentBranch, mainRef, mainCommit,
                         currentCommit, baseCommits, baseCommit, baseTree,
                         currentTree, diff, patch, fileOwners, ownerFiles, iter,
                         stdout, slog, exitCode>>

RepoReference ==
    /\ pc = "Reference"
    /\ \/ Fatal("Error resolving main branch to reference.")
       \/ /\ mainRef' = [name |-> mainBranch.Merge, hash |-> gitRepo.mainTip]
          /\ pc' = "mainCommit"
          /\ UNCHANGED <<envVars, ruleset, currentBranch, mainBranch, mainCommit,
                         currentCommit, baseCommits, baseCommit, baseTree,
                         currentTree, diff, patch, fileOwners, ownerFiles, iter,
                         stdout, slog, exitCode>>

MainCommitObject ==
    /\ pc = "mainCommit"
    /\ \/ Fatal("Error resolving main branch to commit.")
       \/ /\ mainCommit' = mainRef.hash
          /\ slog' = slog \cup {LogRecord("INFO", "Selected reference branch.",
                                          mainBranch.Name)}
          /\ pc' = "currentCommit"
          /\ UNCHANGED <<envVars, ruleset, currentBranch, mainBranch, mainRef,
                         currentCommit, baseCommits, baseCommit, baseTree,
                         currentTree, diff, patch, fileOwners, ownerFiles, iter,
                         stdout, exitCode>>

CurrentCommitObject ==
    /\ pc = "currentCommit"
    /\ \/ Fatal("Error resolving HEAD commit.")
       \/ /\ currentCommit' = currentBranch.hash
          /\ pc' = "MergeBase"
          /\ UNCHANGED <<envVars, ruleset, currentBranch, mainBranch, mainRef,
                         mainCommit, baseCommits, baseCommit, baseTree,
                         currentTree, diff, patch, fileOwners, ownerFiles, iter,
                         stdout, slog, exitCode>>

MergeBase ==
    /\ pc = "MergeBase"
    /\ \/ Fatal("Error resolving merge base commit.")
       \/ /\ baseCommits' = gitRepo.mergeBases
          /\ pc' = "baseCommit"
          /\ UNCHANGED <<envVars, ruleset, currentBranch, mainBranch, mainRef,
                         mainCommit, currentCommit, baseCommit, baseTree,
                         currentTree, diff, patch, fileOwners, ownerFiles, iter,
                         stdout, slog, exitCode>>

\* Mutant: the last merge base is taken.
PickLastBaseCommit ==
    /\ pc = "baseCommit"
    /\ \/ /\ Len(baseCommits) < 1
          /\ Fatal("Could not find merge base.")
       \/ /\ Len(baseCommits) >= 1
          /\ baseCommit' = baseCommits[Len(baseCommits)]
          /\ slog' = slog \cup {LogRecord("INFO", "Identified base commit.",
                                          baseCommits[Len(baseCommits)])}
          /\ pc' = "baseTree"
          /\ UNCHANGED <<envVars, ruleset, currentBranch, mainBranch, mainRef,
                         mainCommit, currentCommit, baseCommits, baseTree,
                         currentTree, diff, patch, fileOwners, ownerFiles, iter,
                         stdout, exitCode>>

PickBaseCommit ==
    /\ pc = "baseCommit"
    /\ \/ /\ Len(baseCommits) < 1
          /\ Fatal("Could not find merge base.")
       \/ /\ Len(baseCommits) >= 1
          /\ baseCommit' = baseCommits[1]
          /\ slog' = slog \cup {LogRecord("INFO", "Identified base commit.",
                                          baseCommits[1])}
          /\ pc' = "baseTree"
          /\ UNCHANGED <<envVars, ruleset, currentBranch, mainBranch, mainRef,
                         mainCommit, currentCommit, baseCommits, baseTree,
                         currentTree, diff, patch, fileOwners, ownerFiles, iter,
                         stdout, exitCode>>

BaseTree ==
    /\ pc = "baseTree"
    /\ \/ Fatal("Error getting base commit tree.")
       \/ /\ baseTree' = Tree(baseCommit)
          /\ pc' = "currentTree"
          /\ UNCHANGED <<envVars, ruleset, currentBranch, mainBranch, mainRef,
                         mainCommit, currentCommit, baseCommits, baseCommit,
                         currentTree, diff, patch, fileOwners, ownerFiles, iter,
                         stdout, slog, exitCode>>

CurrentTree ==
    /\ pc = "currentTree"
    /\ \/ Fatal("Error getting current commit tree.")
       \/ /\ currentTree' = Tree(currentCommit)
          /\ pc' = "Diff"
          /\ UNCHANGED <<envVars, ruleset, currentBranch, mainBranch, mainRef,
                         mainCommit, currentCommit, baseCommits, baseCommit,
                         baseTree, diff, patch, fileOwners, ownerFiles, iter,
                         stdout, slog, exitCode>>

TreeDiff ==
    /\ pc = "Diff"
    /\ \/ Fatal("Error determining diff between trees.")
       \/ /\ diff' = [from |-> baseTree, to |-> currentTree]
          /\ pc' = "Patch"
          /\ UNCHANGED <<envVars, ruleset, currentBranch, mainBranch, mainRef,
                         mainCommit, currentCommit, baseCommits, baseCommit,
                         baseTree, currentTree, patch, fileOwners, ownerFiles,
                         iter, stdout, slog, exitCode>>

DiffPatch ==
    /\ pc = "Patch"
    /\ \/ Fatal("Error getting patch from diff.")
       \/ /\ patch' = FilePatchesOf(diff)
          /\ pc' = "extract"
          /\ UNCHANGED <<envVars, ruleset, currentBranch, mainBranch, mainRef,
                         mainCommit, currentCommit, baseCommits, baseCommit,
                         baseTree, currentTree, diff, fileOwners, ownerFiles,
                         iter, stdout, slog, exitCode>>

resolveVars == <<ruleset, currentBranch, mainBranch, mainRef, mainCommit,
                 currentCommit, baseCommits, baseCommit, baseTree, currentTree,
                 diff, patch>>

\* main.go:105-115: every old and new path becomes a key of fileOwners.
ExtractPaths ==
    /\ pc = "extract"
    /\ fileOwners' = [p \in CollectPaths(patch) |-> << >>]
    /\ iter' = CollectPaths(patch)
    /\ pc' = "match"
    /\ UNCHANGED <<envVars, resolveVars, ownerFiles, stdout, slog, exitCode>>

\* Mutant: the continue of main.go:121 is missing, so the owners of the rule
\* returned with the error are recorded.
MatchFileNoContinue ==
    /\ pc = "match"
    /\ \E file \in iter :
         LET r == RulesetMatch(ruleset, file)
         IN \/ /\ r.err
               /\ slog' = slog \cup {LogRecord("ERROR", "Failed to match rule for file.", file)}
               /\ fileOwners' = [fileOwners EXCEPT ![file] = OwnerStrings(r.rule.Owners)]
               /\ iter' = iter \ {file}
               /\ UNCHANGED <<pc, exitCode>>
            \/ /\ ~r.err
               /\ r.isNil
               /\ pc' = "panic"
               /\ exitCode' = 2
               /\ UNCHANGED <<fileOwners, iter, slog>>
            \/ /\ ~r.err
               /\ ~r.isNil
               /\ fileOwners' = [fileOwners EXCEPT ![file] = OwnerStrings(r.rule.Owners)]
               /\ iter' = iter \ {file}
               /\ UNCHANGED <<pc, slog, exitCode>>
    /\ UNCHANGED <<envVars, resolveVars, ownerFiles, stdout>>

\* main.go:117-126, one iteration: any key not visited yet.
MatchFile ==
    /\ pc = "match"
    /\ \E file \in iter :
         LET r == RulesetMatch(ruleset, file)
         IN \/ /\ r.err
               /\ slog' = slog \cup {LogRecord("ERROR", "Failed to match rule for file.", file)}
               /\ iter' = iter \ {file}
               /\ UNCHANGED <<pc, fileOwners, exitCode>>
            \/ /\ ~r.err
               /\ r.isNil
               /\ pc' = "panic"
               /\ exitCode' = 2
               /\ UNCHANGED <<fileOwners, iter, slog>>
            \/ /\ ~r.err
               /\ ~r.isNil
               /\ fileOwners' = [fileOwners EXCEPT ![file] = OwnerStrings(r.rule.Owners)]
               /\ iter' = iter \ {file}
               /\ UNCHANGED <<pc, slog, exitCode>>
    /\ UNCHANGED <<envVars, resolveVars, ownerFiles, stdout>>

\* main.go:128: the match loop is over.
MatchEnd ==
    /\ pc = "match"
    /\ iter = {}
    /\ ownerFiles' = NoMap
    /\ iter' = DOMAIN fileOwners
    /\ pc' = "invert"
    /\ UNCHANGED <<envVars, resolveVars, fileOwners, stdout, slog, exitCode>>

\* main.go:129-133, one iteration.
InvertFile ==
    /\ pc = "invert"
    /\ \E file \in iter :
         /\ ownerFiles' = AddOwners(ownerFiles, fileOwners[file], file)
         /\ iter' = iter \ {file}
    /\ UNCHANGED <<envVars, resolveVars, pc, fileOwners, stdout, slog, exitCode>>

InvertEnd ==
    /\ pc = "invert"
    /\ iter = {}
    /\ iter' = DOMAIN ownerFiles
    /\ pc' = "print"
    /\ UNCHANGED <<envVars, resolveVars, fileOwners, ownerFiles, stdout, slog, exitCode>>

\* main.go:134-141, one iteration.
PrintOwner ==
    /\ pc = "print"
    /\ \E owner \in iter :
         /\ stdout' = stdout \o OwnerBlock(owner, Uniq(ownerFiles[owner]))
         /\ iter' = iter \ {owner}
    /\ UNCHANGED <<envVars, resolveVars, pc, fileOwners, ownerFiles, slog, exitCode>>

\* main.go:142: main returns.
PrintEnd ==
    /\ pc = "print"
    /\ iter = {}
    /\ pc' = "done"
    /\ exitCode' = 0
    /\ UNCHANGED <<envVars, progVars, slog>>

Next ==
    \/ LoadRuleset
    \/ PlainOpen
    \/ RepoHead
    \/ RepoBranch
    \/ RepoReference
    \/ MainCommitObject
    \/ CurrentCommitObject
    \/ MergeBase
    \/ PickBaseCommit
    \/ BaseTree
    \/ CurrentTree
    \/ TreeDiff
    \/ DiffPatch
    \/ ExtractPaths
    \/ MatchFile
    \/ MatchEnd
    \/ InvertFile
    \/ InvertEnd
    \/ PrintOwner
    \/ PrintEnd

Spec == Init /\ [][Next]_vars

SpecExtract == InitExtract /\ [][Next]_vars

SpecResolve == InitResolve /\ [][Next]_vars

(***************************************************************************)
(* Vocabulary of the properties                                            *)
(***************************************************************************)
Range(q) == {q[i] : i \in 1..Len(q)}

Last(S) == CHOOSE i \in S : \A j \in S : j <= i

\* The paths a list of file patches names.
PatchPaths(fps) ==
    ({fps[i].from : i \in 1..Len(fps)} \cup {fps[i].to : i \in 1..Len(fps)}) \ {Nil}

\* The rules that answer for a path: their pattern matches it, or fails on it.
Hits(rs, p) ==
    {i \in 1..Len(rs) : rs[i].pattern = ErrPattern \/ PatternMatch(rs[i].pattern, p)}

\* The rules whose pattern matches a path.
Matching(rs, p) ==
    {i \in 1..Len(rs) : rs[i].pattern # ErrPattern /\ PatternMatch(rs[i].pattern, p)}

\* Matching the path ends in an error: the last rule that answers fails.
MatchFails(rs, p) == Hits(rs, p) # {} /\ rs[Last(Hits(rs, p))].pattern = ErrPattern

\* No rule answers for the path.
Unowned(rs, p) == Hits(rs, p) = {}

\* The owners, as printed, of the path's winning rule; none when the path has
\* no winning rule.
WinningOwners(rs, p) ==
    IF Unowned(rs, p) \/ MatchFails(rs, p) THEN {}
    ELSE {OwnerString(o) : o \in Range(rs[Last(Hits(rs, p))].Owners)}

\* The inversion of path -> owners over a set of paths.
ExpectedPairs(rs, paths) == UNION {{<<o, p>> : o \in WinningOwners(rs, p)} : p \in paths}

OwnerLines(out) == {i \in 1..Len(out) : out[i].kind = "owner"}
FileLines(out) == {i \in 1..Len(out) : out[i].kind = "file"}

\* The owner a printed line stands under.
BlockOf(out, j) ==
    LET before == {i \in OwnerLines(out) : i < j}
    IN IF before = {} THEN Nil ELSE out[Last(before)].text

\* The report as a relation: (owner, path) for every path line.
ReportPairs(out) == {<<BlockOf(out, j), out[j].text>> : j \in FileLines(out)}
PrintedOwners(out) == {out[i].text : i \in OwnerLines(out)}

ReportPcs == {"match", "invert", "print", "done", "panic"}

\* The keys of fileOwners the match loop has been through.
Visited == IF pc \in {"match", "panic"} THEN DOMAIN fileOwners \ iter ELSE DOMAIN fileOwners

(***************************************************************************)
(* Properties                                                              *)
(***************************************************************************)

\* C1: when the run succeeds, the printed report is exactly the inversion of
\* path -> owners: (O, P) is printed iff P is a changed path whose winning rule
\* lists O, and O is printed iff some changed path's winning rule lists it.
C1_ReportIsInversion ==
    pc = "done" =>
        /\ ReportPairs(stdout) = ExpectedPairs(ruleset, PatchPaths(patch))
        /\ PrintedOwners(stdout) = {pr[1] : pr \in ExpectedPairs(ruleset, PatchPaths(patch))}

C1_Witness ==
    /\ pc = "done"
    /\ Cardinality(PrintedOwners(stdout)) = 2
    /\ Cardinality(ReportPairs(stdout)) >= 3

\* C2: last match wins: a path matched by at least one rule, whose matching
\* ended without an error, gets the owners of the matching rule of highest
\* index, however specific an earlier matching rule is.
C2_LastMatchWins ==
    pc \in ReportPcs =>
        \A p \in Visited :
            (Matching(ruleset, p) # {} /\ ~MatchFails(ruleset, p)) =>
                fileOwners[p] = OwnerStrings(ruleset[Last(Matching(ruleset, p))].Owners)

C2_Witness ==
    /\ pc = "done"
    /\ Len(ruleset) = 2
    /\ ruleset[1].pattern = "*"
    /\ ruleset[2].pattern = "*.go"
    /\ ruleset[1].Owners # ruleset[2].Owners
    /\ "main.go" \in DOMAIN fileOwners
    /\ fileOwners["main.go"] = OwnerStrings(ruleset[2].Owners)

\* C3: when a changed path matches no rule, the run still completes normally,
\* the path appears nowhere in the report, and every other changed path is
\* reported under its owners.
C3_UnownedPathsDropped ==
    (pc \in ReportPcs /\ \E p \in DOMAIN fileOwners : Unowned(ruleset, p)) =>
        /\ pc # "panic"
        /\ pc = "done" =>
              /\ \A pr \in ReportPairs(stdout) : ~Unowned(ruleset, pr[2])
              /\ ReportPairs(stdout) = ExpectedPairs(ruleset, DOMAIN fileOwners)

\* C4: every owner is printed exactly once, and a path at most once under an
\* owner, also when several file patches touch the path or several paths
\* resolve to the owner.
C4_Deduplication ==
    /\ \A i, j \in OwnerLines(stdout) : stdout[i].text = stdout[j].text => i = j
    /\ \A i, j \in FileLines(stdout) :
          (stdout[i].text = stdout[j].text /\ BlockOf(stdout, i) = BlockOf(stdout, j)) => i = j
    /\ pc = "done" =>
          \A pr \in ExpectedPairs(ruleset, PatchPaths(patch)) : pr[1] \in PrintedOwners(stdout)

C4_Witness ==
    /\ pc = "done"
    /\ Len(patch) = 2
    /\ patch[1].from # Nil
    /\ patch[1].from = patch[2].to
    /\ \E a, b \in ReportPairs(stdout) : a[1] = b[1] /\ a[2] # b[2]

\* C5: the changed-path set is the union over the file patches of the old path
\* (if present) and the new path (if present); both ends of a rename are
\* reported under their own owners.
C5_ChangedPaths ==
    pc \in ReportPcs =>
        /\ DOMAIN fileOwners = PatchPaths(patch)
        /\ pc = "done" =>
              \A i \in 1..Len(patch) :
                  (patch[i].from # Nil /\ patch[i].to # Nil) =>
                      /\ \A o \in WinningOwners(ruleset, patch[i].from) :
                            <<o, patch[i].from>> \in ReportPairs(stdout)
                      /\ \A o \in WinningOwners(ruleset, patch[i].to) :
                            <<o, patch[i].to>> \in ReportPairs(stdout)

C5_Witness ==
    /\ pc = "done"
    /\ \E i \in 1..Len(patch) :
          /\ patch[i].from # Nil
          /\ patch[i].to # Nil
          /\ patch[i].from # patch[i].to
          /\ WinningOwners(ruleset, patch[i].from) # {}
          /\ WinningOwners(ruleset, patch[i].to) # {}
          /\ WinningOwners(ruleset, patch[i].from) \cap WinningOwners(ruleset, patch[i].to) = {}
          /\ PrintedOwners(stdout) =
                WinningOwners(ruleset, patch[i].from) \cup WinningOwners(ruleset, patch[i].to)

FatalMessages ==
    {"Error loading ruleset.", "Error opening repository.",
     "Error getting current branch.", "Not on a branch.",
     "Error finding main branch.", "Error resolving main branch to reference.",
     "Error resolving main branch to commit.", "Error resolving HEAD commit.",
     "Error resolving merge base commit.", "Could not find merge base.",
     "Error getting base commit tree.", "Error getting current commit tree.",
     "Error determining diff between trees.", "Error getting patch from diff."}

FatalLogged == \E m \in FatalMessages : LogRecord("ERROR", m, Nil) \in slog

\* C6: a failed setup, ref-resolution or diff step ends the run with a nonzero
\* exit code and nothing printed; a report line is printed only after all of
\* these steps have succeeded.
C6_NoPartialReport ==
    /\ FatalLogged => (pc = "exit" /\ exitCode = 1 /\ stdout = << >>)
    /\ pc = "exit" => FatalLogged
    /\ stdout # << >> => (pc \in {"print", "done"} /\ ~FatalLogged)

C6_Witness ==
    /\ pc = "exit"
    /\ LogRecord("ERROR", "Could not find merge base.", Nil) \in slog
    /\ exitCode = 1
    /\ stdout = << >>

\* C7: a path whose matching fails is skipped and logged, it aborts nothing, and
\* the other changed paths are matched and reported as if the failing path were
\* not in the change set.
C7_PartialFailureTolerance ==
    pc \in ReportPcs =>
        LET failing == {p \in DOMAIN fileOwners : MatchFails(ruleset, p)}
        IN /\ \A p \in failing \cap Visited :
                 /\ fileOwners[p] = << >>
                 /\ LogRecord("ERROR", "Failed to match rule for file.", p) \in slog
           /\ \A p \in failing :
                 /\ \A o \in DOMAIN ownerFiles : p \notin Range(ownerFiles[o])
                 /\ \A pr \in ReportPairs(stdout) : pr[2] # p
           /\ exitCode # 1
           /\ pc = "panic" => \E p \in DOMAIN fileOwners \ failing : Unowned(ruleset, p)
           /\ pc = "done" =>
                 ReportPairs(stdout) = ExpectedPairs(ruleset, DOMAIN fileOwners \ failing)

C7_Witness ==
    /\ pc = "done"
    /\ \E p \in DOMAIN fileOwners : MatchFails(ruleset, p)
    /\ ReportPairs(stdout) # {}

PastBranchPcs ==
    {"Reference", "mainCommit", "currentCommit", "MergeBase", "baseCommit",
     "baseTree", "currentTree", "Diff", "Patch", "extract"} \cup ReportPcs

\* C8: the mainline is main whenever main is found, master only when main is
\* not found and master is; when neither is found the run fails: nonzero exit,
\* no diff work, no report.
C8_MainlineSelection ==
    /\ pc \in PastBranchPcs => mainBranch.Name \in {"main", "master"}
    /\ (gitRepo.branches["main"] = "found" /\ mainBranch # NoBranch) => mainBranch.Name = "main"
    /\ mainBranch.Name = "master" =>
          (gitRepo.branches["main"] = "notfound" /\ gitRepo.branches["master"] = "found")
    /\ (gitRepo.branches["main"] # "found" /\ gitRepo.branches["master"] # "found") =>
          /\ pc \in {"loadRuleset", "PlainOpen", "Head", "Branch", "exit"}
          /\ pc = "exit" => exitCode = 1
          /\ mainBranch = NoBranch
          /\ diff = NoDiff
          /\ stdout = << >>

C8_Witness ==
    /\ pc = "done"
    /\ mainBranch.Name = "master"
    /\ gitRepo.branches["main"] = "notfound"

\* C9: the paths under each owner are printed in a sorted order that does not
\* depend on the iteration order of the intermediate collections.
C9_SortedOutput ==
    pc = "done" =>
        \A i, j \in FileLines(stdout) :
            (i < j /\ BlockOf(stdout, i) = BlockOf(stdout, j)) =>
                PathRank(stdout[i].text) <= PathRank(stdout[j].text)

DiffPcs == {"Patch", "extract"} \cup ReportPcs

\* C10, as amended: the trees diffed are the tree of the first merge base that
\* Commit.MergeBase returned for HEAD's commit and the mainline tip, and the
\* tree of HEAD's commit; the base tree is read from the mainline tip only
\* when the mainline tip is that merge base; without a merge base the run
\* fails before any tree is read or diffed.
C10_DivergencePoint ==
    /\ diff # NoDiff =>
          /\ baseCommits = gitRepo.mergeBases
          /\ diff.from = Tree(baseCommits[1])
          /\ diff.to = Tree("c_head")
          /\ currentCommit = "c_head"
          /\ mainCommit = gitRepo.mainTip
          /\ baseCommits[1] # mainCommit => diff.from # Tree(mainCommit)
    /\ pc \in DiffPcs => diff # NoDiff
    /\ gitRepo.mergeBases = << >> =>
          /\ baseTree = NoTree
          /\ currentTree = NoTree
          /\ diff = NoDiff
          /\ pc \notin DiffPcs

C10_Witness ==
    /\ pc = "done"
    /\ Len(baseCommits) = 2
    /\ diff.from = Tree(baseCommits[1])
    /\ diff.from # Tree(baseCommits[2])

\* C10, as stated: the trees diffed are the tree of the first merge base and
\* the tree of HEAD's commit, and the base tree is never the mainline tip's
\* tree; without a merge base the run fails before any tree is read or diffed.
C10_NeverMainlineTree ==
    /\ diff # NoDiff =>
          /\ baseCommits = gitRepo.mergeBases
          /\ diff.from = Tree(baseCommits[1])
          /\ diff.to = Tree("c_head")
          /\ currentCommit = "c_head"
          /\ mainCommit = gitRepo.mainTip
          /\ diff.from # Tree(mainCommit)
    /\ pc \in DiffPcs => diff # NoDiff
    /\ gitRepo.mergeBases = << >> =>
          /\ baseTree = NoTree
          /\ currentTree = NoTree
          /\ diff = NoDiff
          /\ pc \notin DiffPcs

====
